---- MODULE Spec2Model ----
(***************************************************************************)
(* Model of the token-authentication core of mozsvc:                        *)
(*   - MemcachedNonceCache.check_nonce over a MemcachedClient               *)
(*     (src/mozsvc/user/noncecache.py, src/mozsvc/storage/mcclient.py)      *)
(*   - the Secrets store (src/mozsvc/secrets.py)                            *)
(*   - TokenServerAuthenticationPolicy.decode_hawk_id / encode_hawk_id      *)
(*     (src/mozsvc/user/__init__.py) and SagradaMACAuthPlugin               *)
(*     decode_mac_id / encode_mac_id (src/mozsvc/user/whoauth.py)           *)
(*   - PermissiveNonceCache, DerivedSecrets and the manage command line,    *)
(*     MCClientPool (src/mozsvc/storage/mcclient.py), the construction of   *)
(*     the authenticators from settings, and thread_context                 *)
(*     (src/mozsvc/metrics.py)                                              *)
(*                                                                         *)
(* Time is counted in ticks, TicksPerSec ticks to the second, so that the   *)
(* float clock time.time() and the truncation int(...) of check_nonce are   *)
(* both visible.  Request timestamps are whole seconds.                     *)
(***************************************************************************)
EXTENDS Integers, Sequences, FiniteSets, TLC

\* ------------------------------------------------------------------ bounds
TicksPerSec == 2          \* clock resolution of the model
nonce_ttl == 1            \* seconds; MemcachedNonceCache.nonce_ttl as configured
MaxTick == 4              \* the clock runs from 0 to MaxTick ticks
MaxCalls == 2             \* check_nonce calls started in one behaviour
MaxFaults == 1            \* cache faults (corruption, connection errors) injected
MaxAdds == 1              \* Secrets.add calls made in one behaviour
log_window == 1           \* seconds; PermissiveNonceCache.log_window as configured
MaxStoreOps == 3          \* calls made on a Secrets store in one behaviour
MaxMasterLen == 4         \* characters in a master secret of DerivedSecrets
MaxBlocks == 2            \* thread_context blocks entered by one thread
maxsize == 2              \* MCClientPool.maxsize as configured
timeout == 1              \* seconds; MCClientPool.timeout as configured
MaxPoolErrors == 2        \* connection errors met by users of the pool
MaxArgs == 4              \* length of the argument list given to manage
MaxConfigs == 2           \* authenticators constructed from settings in one behaviour

id_ttl == nonce_ttl + 1   \* seconds; MemcachedNonceCache.id_ttl as configured

Procs == {1, 2}           \* request-handling workers sharing the cache
Ids == {"tokA"}           \* MAC ids (authentication tokens)
Nonces == {"n1", "n2"}
Timestamps == 0 .. (MaxTick \div TicksPerSec)

VARIABLES
    now,        \* the clock, in ticks (time.time())
    cache,      \* memcached: key -> [data, exp]; expired entries are gone
    call,       \* per worker: the check_nonce activation (locals and result)
    ncalls,     \* number of check_nonce calls started
    faults,     \* number of faults injected so far
    started,    \* history: the (id, timestamp, nonce) triples ever presented
    accepted,   \* history: triple -> tick at which a call on it was accepted
    variant,    \* which authenticator is configured: "hawk" or "mac"
    secrets,    \* Secrets._secrets: node name -> list of <<timestamp, secret>>
    nadds,      \* number of Secrets.add calls made
    op,         \* the latest authenticator operation and its outcome
    pol,        \* the authentication policy: its nonce cache, requests handled
    sop,        \* the latest operation on a Secrets store and its outcome
    der,        \* the latest DerivedSecrets.get call and its outcome
    tl,         \* metrics thread-local storage and the thread_context blocks
    pool,       \* MCClientPool: its queue, the workers using it, errors so far
    cli,        \* the latest run of the secrets command line and its outcome
    cfg         \* authenticators constructed from configuration, and the latest attempt

nonceVars == <<cache, call, ncalls, faults, started, accepted>>
authVars == <<variant, secrets, nadds, op>>
moreVars == <<tl, pool, cli, cfg>>
extVars == <<pol, sop, der, moreVars>>
vars == <<now, cache, call, ncalls, faults, started, accepted, variant, secrets, nadds, op,
          pol, sop, der, moreVars>>

\* ------------------------------------------------------ integer helpers
Abs(x) == IF x < 0 THEN -x ELSE x

\* Python int(): truncation toward zero of x ticks to whole seconds.
PyInt(x) == IF x >= 0 THEN x \div TicksPerSec ELSE -((-x) \div TicksPerSec)

Ticks(sec) == sec * TicksPerSec

\* ------------------------------------------------------ MemcachedClient
\* Stored values are JSON text; what matters is whether json.loads accepts it.
JInt(n) == [kind |-> "int", v |-> n]
JTrue == [kind |-> "bool", v |-> 1]
Garbage == [kind |-> "garbage", v |-> 0]

\* MemcachedClient._encode_value / _decode_value: json.dumps / json.loads.
EncodeValue(x) == x
DecodeFails(d) == d.kind = "garbage"

\* MemcachedNonceCache._key: hash of the ":"-joined component names.
Key(names) == names
key_skew(id) == Key(<<id, "skew">>)
key_nonce_WithoutNonce(id, ts, nonce) == Key(<<id, "nonce", ts, "">>)
key_nonce(id, ts, nonce) == Key(<<id, "nonce", ts, nonce>>)

\* MemcachedClient.get_multi: the stored items among the requested keys.
GetMultiItems(c, keys) == [k \in (keys \cap DOMAIN c) |-> c[k].data]
GetMultiRaisesValueError_NonceOnly(c, keys) ==
    \E k \in keys \cap DOMAIN c : Len(k) > 2 /\ c[k].data.kind = "garbage"
GetMultiRaisesValueError(c, keys) ==
    \E k \in keys \cap DOMAIN c : DecodeFails(c[k].data)

\* MemcachedClient.add: store only when the key is absent; "STORED" or not.
AddStores(c, k) == k \notin DOMAIN c
McAdd_Overwrite(c, k, value, ttl, t) ==
    [x \in DOMAIN c \cup {k} |->
       IF x = k THEN [data |-> EncodeValue(value), exp |-> t + Ticks(ttl)] ELSE c[x]]
McAdd(c, k, value, ttl, t) ==
    IF AddStores(c, k)
    THEN [x \in DOMAIN c \cup {k} |->
            IF x = k THEN [data |-> EncodeValue(value), exp |-> t + Ticks(ttl)]
                     ELSE c[x]]
    ELSE c

\* memcached expiry: an entry is dropped once the clock reaches its expiry.
Expire(c, t) == [k \in {x \in DOMAIN c : t < c[x].exp} |-> c[k]]

\* ------------------------------------------------- check_nonce activation
IdleCall ==
    [pc |-> "idle", id |-> "tokA", ts |-> 0, nonce |-> "n1",
     hasSkew |-> FALSE, skew |-> 0, seenNonce |-> FALSE, res |-> "none",
     ticked |-> FALSE, checked |-> FALSE, dist |-> 0,
     corrupt |-> FALSE, failedOp |-> "none", addStored |-> FALSE,
     wrote |-> 0, skewStored |-> FALSE,
     first |-> FALSE, priorAcc |-> -1, inPriorTtl |-> FALSE, conc |-> {}]

Triple(c) == <<c.id, c.ts, c.nonce>>
InFlight(p) == call[p].pc \in {"get", "skew", "check", "add"}
Done(p) == call[p].pc = "done"

Stale_BoundaryInside(ts, skew, t) == Abs(Ticks(ts) + Ticks(skew) - t) > Ticks(nonce_ttl)
Stale_IgnoringSkew(ts, skew, t) == Abs(Ticks(ts) - t) >= Ticks(nonce_ttl)
\* abs(timestamp + skew - time.time()) >= self.nonce_ttl
Stale(ts, skew, t) == Abs(Ticks(ts) + Ticks(skew) - t) >= Ticks(nonce_ttl)

Finish(c, result) == [c EXCEPT !.pc = "done", !.res = result]

\* A finished activation's locals are gone once its caller has moved on; what
\* stays is what the caller saw: the arguments and the result.
Returned(c, p) ==
    IF c.pc = "idle" THEN c
    ELSE [IdleCall EXCEPT !.pc = "returned", !.id = c.id, !.ts = c.ts,
                          !.nonce = c.nonce, !.res = c.res, !.conc = c.conc \ {p}]

\* A worker enters check_nonce(id, timestamp, nonce).
Start(p, id, ts, n) ==
    /\ call[p].pc \in {"idle", "done", "returned"}
    /\ ncalls < MaxCalls
    /\ LET t == <<id, ts, n>>
           mine == [IdleCall EXCEPT
                      !.pc = "get", !.id = id, !.ts = ts, !.nonce = n,
                      !.first = (t \notin started),
                      !.priorAcc = IF t \in DOMAIN accepted THEN accepted[t] ELSE -1,
                      !.conc = {q \in Procs \ {p} : InFlight(q)}]
       IN  /\ call' = [q \in Procs |->
                         IF q = p THEN mine
                         ELSE IF InFlight(q) THEN [call[q] EXCEPT !.conc = @ \ {p}]
                         ELSE Returned(call[q], p)]
           /\ started' = started \cup {t}
    /\ ncalls' = ncalls + 1
    /\ UNCHANGED <<now, cache, faults, accepted>>

\* Lines 82-96: get_multi([key_skew, key_nonce]) and the decisions on it.
\* Line 95: skew = cached[key_skew], the value get_multi returned.
SkewFor_Recomputed(items, ks, ts, t) == PyInt(t - Ticks(ts))
SkewFor(items, ks, ts, t) == items[ks].v

GetMulti(p) ==
    /\ call[p].pc = "get"
    /\ LET c == call[p]
           ks == key_skew(c.id)
           kn == key_nonce(c.id, c.ts, c.nonce)
           items == GetMultiItems(cache, {ks, kn})
           got == [c EXCEPT !.priorAcc = -1,
                            !.inPriorTtl = (c.priorAcc >= 0 /\ now < c.priorAcc + Ticks(nonce_ttl)),
                            !.corrupt = \E k \in {ks, kn} \cap DOMAIN cache :
                                           cache[k].data = Garbage]
       IN  call' = [call EXCEPT ![p] =
              IF GetMultiRaisesValueError(cache, {ks, kn})
              THEN Finish(got, "False")
              ELSE IF kn \in DOMAIN items
              THEN Finish([got EXCEPT !.seenNonce = TRUE], "False")
              ELSE IF ks \in DOMAIN items
              THEN [got EXCEPT !.pc = "check", !.hasSkew = TRUE,
                               !.skew = SkewFor(items, ks, c.ts, now)]
              ELSE [got EXCEPT !.pc = "skew"]]
    /\ UNCHANGED <<now, cache, ncalls, faults, started, accepted>>

\* Lines 97-98: skew = int(time.time() - timestamp); add(key_skew, skew).
RecordSkew(p) ==
    /\ call[p].pc = "skew"
    /\ LET c == call[p]
           s == PyInt(now - Ticks(c.ts))
           nth == 1 + Cardinality({q \in Procs \ {p} : call[q].wrote > 0})
       IN  /\ cache' = McAdd(cache, key_skew(c.id), JInt(s), id_ttl, now)
           /\ call' = [call EXCEPT ![p] =
                         [c EXCEPT !.pc = "check", !.skew = s, !.wrote = nth,
                                   !.skewStored = AddStores(cache, key_skew(c.id))]]
    /\ UNCHANGED <<now, ncalls, faults, started, accepted>>

\* Lines 101-102: the freshness window on the skew-adjusted timestamp.
CheckWindow_RecordsFirst(p) ==
    /\ call[p].pc = "check"
    /\ LET c == [call[p] EXCEPT !.checked = TRUE,
                                 !.dist = Ticks(call[p].ts) + Ticks(call[p].skew) - now]
       IN  call' = [call EXCEPT ![p] =
              IF Stale(c.ts, c.skew, now)
              THEN Finish(c, "False")
              ELSE [c EXCEPT !.pc = "add"]]
    /\ cache' = McAdd(cache, key_nonce(call[p].id, call[p].ts, call[p].nonce),
                      JTrue, nonce_ttl, now)
    /\ UNCHANGED <<now, ncalls, faults, started, accepted>>
CheckWindow(p) ==
    /\ call[p].pc = "check"
    /\ LET c == [call[p] EXCEPT !.checked = TRUE,
                                 !.dist = Ticks(call[p].ts) + Ticks(call[p].skew) - now]
       IN  call' = [call EXCEPT ![p] =
              IF Stale(c.ts, c.skew, now)
              THEN Finish(c, "False")
              ELSE [c EXCEPT !.pc = "add"]]
    /\ UNCHANGED <<now, cache, ncalls, faults, started, accepted>>

\* Lines 104-105: add(key_nonce, True); the result of add is discarded.
AddNonce(p) ==
    /\ call[p].pc = "add"
    /\ LET c == call[p]
           kn == key_nonce(c.id, c.ts, c.nonce)
       IN  /\ cache' = McAdd(cache, kn, JTrue, nonce_ttl, now)
           /\ call' = [call EXCEPT ![p] =
                         Finish([c EXCEPT !.addStored = AddStores(cache, kn)], "True")]
           /\ accepted' = [t \in DOMAIN accepted \cup {Triple(c)} |->
                             IF t = Triple(c) THEN now ELSE accepted[t]]
    /\ UNCHANGED <<now, ncalls, faults, started>>

\* MemcachedClient._connect: an EnvironmentError/RuntimeError during a cache
\* operation is re-raised as BackendError, which check_nonce does not catch.
\* A failed add may or may not have reached the server.
BackendFailure(p) ==
    /\ InFlight(p) /\ call[p].pc # "check"
    /\ faults < MaxFaults
    /\ faults' = faults + 1
    /\ LET c == call[p]
           k == IF c.pc = "skew" THEN key_skew(c.id)
                ELSE key_nonce(c.id, c.ts, c.nonce)
           v == IF c.pc = "skew" THEN JInt(PyInt(now - Ticks(c.ts))) ELSE JTrue
           ttl == IF c.pc = "skew" THEN id_ttl ELSE nonce_ttl
       IN  /\ \E reached \in BOOLEAN :
                cache' = IF reached /\ c.pc # "get"
                         THEN McAdd(cache, k, v, ttl, now) ELSE cache
           /\ call' = [call EXCEPT ![p] =
                         Finish([c EXCEPT !.failedOp = c.pc], "BackendError")]
    /\ UNCHANGED <<now, ncalls, started, accepted>>

\* The data stored under a key is damaged (it no longer parses as JSON).
Corrupt(k) ==
    /\ k \in DOMAIN cache
    /\ cache[k].data.kind # "garbage"
    /\ faults < MaxFaults
    /\ faults' = faults + 1
    /\ cache' = [cache EXCEPT ![k].data = Garbage]
    /\ UNCHANGED <<now, call, ncalls, started, accepted>>

\* The clock advances; memcached drops the entries that expire.
Tick ==
    /\ now < MaxTick
    /\ now' = now + 1
    /\ cache' = Expire(cache, now + 1)
    /\ call' = [p \in Procs |->
                 IF InFlight(p) THEN [call[p] EXCEPT !.ticked = TRUE] ELSE call[p]]
    /\ accepted' = [t \in {x \in DOMAIN accepted :
                              now + 1 < accepted[x] + Ticks(nonce_ttl)} |-> accepted[t]]
    /\ UNCHANGED <<ncalls, faults, started>>


\* ================================================================ secrets
\* A node name or host URL "scheme://host[:port][path]"; port "" is no port.
Url(s, h, p, path) == [scheme |-> s, host |-> h, port |-> p, path |-> path]

Node1 == Url("http", "host1.com", "", "")
Node2 == Url("https", "host2.com", "", "")

\* The requests presented: host_url and script_name of each.
Requests ==
    {Node1, Url("http", "host1.com", "80", ""),
     Node2, Url("https", "host2.com", "443", ""),
     Url("http", "host2.com", "", ""), Url("http", "host2.com", "443", "")}

\* Timestamps of secrets are decimal strings, kept as sequences of digits;
\* Python compares and sorts them as strings.
RECURSIVE StrOfInt(_)
StrOfInt(n) == IF n < 10 THEN <<n>> ELSE Append(StrOfInt(n \div 10), n % 10)

RECURSIVE StrLess(_, _)
StrLess(a, b) ==
    IF b = <<>> THEN FALSE
    ELSE IF a = <<>> THEN TRUE
    ELSE IF Head(a) # Head(b) THEN Head(a) < Head(b)
    ELSE StrLess(Tail(a), Tail(b))
StrLeq(a, b) == a = b \/ StrLess(a, b)

SecretPool == {"secret12", "secret99"}   \* what os.urandom may produce

\* Secrets.get on the defaultdict: the list of secrets, and the store with
\* the node's (possibly empty) entry created by the lookup.
Touch(store, node) ==
    IF node \in DOMAIN store THEN store
    ELSE [n \in DOMAIN store \cup {node} |-> IF n = node THEN <<>> ELSE store[n]]
SecretsGet_AnyNode(store, node) ==
    LET st == Touch(store, node)
        all == st[Node1] \o st[node]
    IN  [list |-> [i \in 1 .. Len(all) |-> all[i][2]], store |-> st]
SecretsGet(store, node) ==
    LET st == Touch(store, node)
    IN  [list |-> [i \in 1 .. Len(st[node]) |-> st[node][i][2]], store |-> st]
SecretsKeys(store) == DOMAIN store

\* Secrets.add: the new entry must sort after the last one, else the
\* assertion fails; the lookup creates the node's entry in either case.
AddRejected(store, node, timestamp) ==
    LET st == Touch(store, node)
    IN  st[node] # <<>> /\ StrLeq(timestamp, st[node][Len(st[node])][1])
SecretsAdd(store, node, timestamp, secret) ==
    LET st == Touch(store, node)
    IN  IF AddRejected(store, node, timestamp) THEN st
        ELSE [st EXCEPT ![node] = Append(@, <<timestamp, secret>>)]

\* ================================================================= tokens
\* tokenlib tokens: a payload signed with a secret.  A token verifies under
\* a secret only if it is well formed, not expired and signed with it.
Uids == {42, 7}
NodeClaims == {Node1, Node2}
SigningSecrets == {"secret11", "secret12", "secret21"}
Tokens ==
    [hasUid : BOOLEAN, uid : Uids, hasNode : BOOLEAN, node : NodeClaims,
     secret : SigningSecrets, state : {"ok"}]
    \cup
    [hasUid : {TRUE}, uid : {42}, hasNode : {TRUE}, node : {Node1},
     secret : {"secret11"}, state : {"malformed", "expired"}]
ForgedTokens ==
    {t \in Tokens : /\ t.uid = 42
                    /\ ~t.hasNode => (t.node = Node1 /\ t.hasUid)
                    /\ ~t.hasUid => t.node = Node1}

MakeToken(hasUid, uid, hasNode, node, secret) ==
    [hasUid |-> hasUid, uid |-> uid, hasNode |-> hasNode, node |-> node,
     secret |-> secret, state |-> "ok"]
NoToken == MakeToken(FALSE, 42, FALSE, Node1, "junk")

\* tokenlib.parse_token succeeds (else it raises ValueError).
ParseOk(tok, secret) == tok.state = "ok" /\ tok.secret = secret
\* tokenlib.get_derived_secret / get_token_secret: a key derived from both.
DerivedKey(tok, secret) == [tokenid |-> tok, secret |-> secret]
NoKey == DerivedKey(NoToken, "none")

\* Outcomes: a value returned, or an exception raised.
NoExc == [type |-> "none", msg |-> ""]
Exc(type, msg) == [type |-> type, msg |-> msg]
Returns(uid, key) == [ok |-> TRUE, uid |-> uid, key |-> key, exc |-> NoExc]
Raises(e) == [ok |-> FALSE, uid |-> 0, key |-> NoKey, exc |-> e]

\* ---------------------------------------- TokenServerAuthenticationPolicy
\* _get_node_name: host_url without a default port, plus the script name.
hawk_get_node_name(req) ==
    IF req.scheme = "http" /\ req.port = "80" THEN [req EXCEPT !.port = ""]
    ELSE IF req.scheme = "https" /\ req.port = "443" THEN [req EXCEPT !.port = ""]
    ELSE req

\* The body of the try block of decode_hawk_id for one secret.
HawkTry(tok, secret, node_name) ==
    IF ~ParseOk(tok, secret) THEN Raises(Exc("ValueError", "parse_token"))
    ELSE IF ~tok.hasUid THEN Raises(Exc("KeyError", "uid"))
    ELSE IF ~tok.hasNode THEN Raises(Exc("KeyError", "node"))
    ELSE IF tok.node # node_name
         THEN Raises(Exc("ValueError", "incorrect node for this token"))
    ELSE Returns(tok.uid, DerivedKey(tok, secret))

HawkCaught_ValueErrorOnly == {"ValueError"}
HawkCaught == {"ValueError", "KeyError"}

\* The for/else loop of decode_hawk_id over the candidate secrets.
RECURSIVE HawkLoop(_, _, _, _)
HawkLoop_NoElse(tok, list, i, node_name) ==
    IF i > Len(list) THEN Raises(Exc("UnboundLocalError", "userid"))
    ELSE LET r == HawkTry(tok, list[i], node_name)
         IN  IF r.ok \/ r.exc.type \notin HawkCaught THEN r
             ELSE Raises(Exc("ValueError", "invalid Hawk id"))
HawkLoop(tok, list, i, node_name) ==
    IF i > Len(list) THEN Raises(Exc("ValueError", "invalid Hawk id"))
    ELSE LET r == HawkTry(tok, list[i], node_name)
         IN  IF r.ok THEN r
             ELSE IF r.exc.type \in HawkCaught
                  THEN HawkLoop(tok, list, i + 1, node_name)
             ELSE r

decode_hawk_id_LastSecretOnly(store, req, tok) ==
    LET node_name == hawk_get_node_name(req)
        list == SecretsGet(store, node_name).list
    IN  HawkLoop(tok, list, IF list = <<>> THEN 1 ELSE Len(list), node_name)
decode_hawk_id(store, req, tok) ==
    LET node_name == hawk_get_node_name(req)
    IN  HawkLoop(tok, SecretsGet(store, node_name).list, 1, node_name)

encode_hawk_id_FirstSecret(store, req, uid) ==
    LET node_name == hawk_get_node_name(req)
        list == SecretsGet(store, node_name).list
    IN  IF list = <<>> THEN [out |-> Raises(Exc("IndexError", "list index")), tok |-> NoToken]
        ELSE LET tok == MakeToken(TRUE, uid, TRUE, node_name, list[1])
             IN  [out |-> Returns(uid, DerivedKey(tok, list[1])), tok |-> tok]
\* encode_hawk_id: sign {uid, node} with the last secret of the node.
encode_hawk_id(store, req, uid) ==
    LET node_name == hawk_get_node_name(req)
        list == SecretsGet(store, node_name).list
    IN  IF list = <<>> THEN [out |-> Raises(Exc("IndexError", "list index")), tok |-> NoToken]
        ELSE LET secret == list[Len(list)]
                 tok == MakeToken(TRUE, uid, TRUE, node_name, secret)
             IN  [out |-> Returns(uid, DerivedKey(tok, secret)), tok |-> tok]

\* ---------------------------------------------------- SagradaMACAuthPlugin
\* _get_token_secrets: the node name the MAC plugin looks secrets up by.
mac_get_node_name(req) ==
    LET host_url == [req EXCEPT !.path = ""]
    IN  IF req.scheme = "http" /\ req.port = "80" THEN [host_url EXCEPT !.port = ""]
        ELSE IF req.scheme = "http" /\ req.port = "443" THEN [host_url EXCEPT !.port = ""]
        ELSE host_url

\* The body of the try block of decode_mac_id for one secret.
MacTry(tok, secret) ==
    IF ~ParseOk(tok, secret) THEN Raises(Exc("ValueError", "parse_token"))
    ELSE Returns(IF tok.hasUid THEN tok.uid ELSE 0, DerivedKey(tok, secret))

MacCaught == {"ValueError"}

RECURSIVE MacLoop(_, _, _)
MacLoop(tok, list, i) ==
    IF i > Len(list) THEN Raises(Exc("ValueError", "invalid MAC id"))
    ELSE LET r == MacTry(tok, list[i])
         IN  IF r.ok THEN r
             ELSE IF r.exc.type \in MacCaught THEN MacLoop(tok, list, i + 1)
             ELSE r

decode_mac_id(store, req, tok) ==
    MacLoop(tok, SecretsGet(store, mac_get_node_name(req)).list, 1)

\* encode_mac_id: sign the caller's data with the last secret of the node.
encode_mac_id(store, req, uid) ==
    LET list == SecretsGet(store, mac_get_node_name(req)).list
    IN  IF list = <<>> THEN [out |-> Raises(Exc("IndexError", "list index")), tok |-> NoToken]
        ELSE LET secret == list[Len(list)]
                 tok == MakeToken(TRUE, uid, FALSE, Node1, secret)
             IN  [out |-> Returns(uid, DerivedKey(tok, secret)), tok |-> tok]

\* ------------------------------------------------- authenticator operations
Variants == {"hawk", "mac"}
NodeName(v, req) ==
    IF v = "hawk" THEN hawk_get_node_name(req) ELSE mac_get_node_name(req)
Decode(v, store, req, tok) ==
    IF v = "hawk" THEN decode_hawk_id(store, req, tok)
    ELSE decode_mac_id(store, req, tok)
Encode(v, store, req, uid) ==
    IF v = "hawk" THEN encode_hawk_id(store, req, uid)
    ELSE encode_mac_id(store, req, uid)

\* Why a token cannot be decoded against a list of secrets (for reporting).
FailureCause(v, list, node_name, tok) ==
    IF list = <<>> THEN "no secrets"
    ELSE IF tok.state # "ok" THEN tok.state
    ELSE IF \A i \in 1 .. Len(list) : list[i] # tok.secret THEN "wrong secret"
    ELSE IF v = "hawk" /\ (~tok.hasUid \/ ~tok.hasNode) THEN "missing claim"
    ELSE IF v = "hawk" /\ tok.node # node_name THEN "node mismatch"
    ELSE "none"

NoOp ==
    [kind |-> "none", req |-> Node1, tok |-> NoToken,
     out |-> Raises(NoExc), list |-> <<>>, cause |-> "none", issued |-> FALSE,
     encReq |-> Node1, encUid |-> 0, encKey |-> NoKey, encList |-> <<>>]

\* decode_hawk_id / decode_mac_id on a request carrying any token.
DecodeOp(req, tok) ==
    /\ LET node_name == NodeName(variant, req)
           got == SecretsGet(secrets, node_name)
       IN  /\ op' = [NoOp EXCEPT !.kind = "decode",
                       !.req = req, !.tok = tok, !.list = got.list,
                       !.out = Decode(variant, secrets, req, tok),
                       !.cause = FailureCause(variant, got.list, node_name, tok)]
           /\ secrets' = got.store
    /\ UNCHANGED <<now, variant, nadds, nonceVars>>

\* encode_hawk_id / encode_mac_id for a uid on a request.
EncodeOp(req, uid) ==
    /\ LET node_name == NodeName(variant, req)
           got == SecretsGet(secrets, node_name)
           enc == Encode(variant, secrets, req, uid)
       IN  /\ op' = [NoOp EXCEPT !.kind = "encode",
                       !.req = req, !.tok = enc.tok, !.out = enc.out,
                       !.list = got.list,
                       !.issued = enc.out.ok,
                       !.encReq = req, !.encUid = uid, !.encKey = enc.out.key,
                       !.encList = got.list]
           /\ secrets' = got.store
    /\ UNCHANGED <<now, variant, nadds, nonceVars>>

\* The token just issued by encode is presented on a request and decoded.
RoundTripOp(req) ==
    /\ op.issued /\ op.kind \in {"encode", "add"}
    /\ LET node_name == NodeName(variant, req)
           got == SecretsGet(secrets, node_name)
       IN  /\ op' = [op EXCEPT !.kind = "roundtrip", !.req = req,
                       !.list = got.list,
                       !.out = Decode(variant, secrets, req, op.tok),
                       !.cause = FailureCause(variant, got.list, node_name, op.tok)]
           /\ secrets' = got.store
    /\ UNCHANGED <<now, variant, nadds, nonceVars>>

\* Secrets.add(node): an operator rotates in a new secret for a node.
AddOp(node, secret) ==
    /\ nadds < MaxAdds
    /\ nadds' = nadds + 1
    /\ LET timestamp == StrOfInt(PyInt(now))
       IN  /\ secrets' = SecretsAdd(secrets, node, timestamp, secret)
           /\ op' = [(IF op.issued THEN op ELSE NoOp) EXCEPT
                       !.kind = "add", !.req = node, !.cause = "none",
                       !.list = SecretsGet(secrets, node).list,
                       !.out = IF AddRejected(secrets, node, timestamp)
                               THEN Raises(Exc("AssertionError",
                                               "You can only add one secret per second"))
                               ELSE Returns(0, NoKey)]
    /\ UNCHANGED <<now, variant, nonceVars>>

\* The store as loaded from a secrets file (entries sorted on load).
LoadedSecrets ==
    [n \in {Node1, Node2} |->
        IF n = Node1 THEN << <<(<<0, 0, 0, 1>>), "secret11">>, <<(<<0, 0, 0, 2>>), "secret12">> >>
        ELSE << <<(<<0, 0, 0, 1>>), "secret21">> >>]

\* The wall clock moves on by a second (the store reads int(time.time())).
TickSecond ==
    /\ now + TicksPerSec <= MaxTick
    /\ now' = now + TicksPerSec
    /\ UNCHANGED <<nonceVars, authVars>>

AuthInit ==
    /\ variant \in Variants
    /\ secrets = LoadedSecrets
    /\ nadds = 0
    /\ op = NoOp

\* ============================================= policy and its nonce cache
\* PermissiveNonceCache.check_nonce at clock t: logs a large skew, returns True.
PermissiveCheckNonce_Windowed(timestamp, nonce, t) ==
    [res |-> Abs(t - Ticks(timestamp)) <= Ticks(log_window), raised |-> FALSE,
     warned |-> Abs(t - Ticks(timestamp)) > Ticks(log_window)]
PermissiveCheckNonce(timestamp, nonce, t) ==
    LET skew == t - Ticks(timestamp)
    IN  [res |-> TRUE, raised |-> FALSE, warned |-> Abs(skew) > Ticks(log_window)]

\* The nonce_cache keyword of TokenServerAuthenticationPolicy.__init__: None,
\* or a cache object supplied by the configuration.
NonceCacheArgs == {"None", "supplied"}
NonceCacheFor_AlwaysSupplied(arg) == "supplied"
NonceCacheFor(arg) == IF arg = "None" THEN "PermissiveNonceCache" ELSE "supplied"

\* Timestamps a Hawk request may carry, some far from the clock.
HawkTimestamps == {0 - 5, 0, 1, 7}

NoRequest == [req |-> Node1, tok |-> NoToken, ts |-> 0, nonce |-> "n1"]
\* The tokens presented to the policy: one issued for each node, one signed
\* with a secret no node has, one issued for another node than its secret's.
PolicyTokens ==
    {MakeToken(TRUE, 42, TRUE, Node1, "secret11"),
     MakeToken(TRUE, 7, TRUE, Node2, "secret21"),
     MakeToken(TRUE, 42, TRUE, Node1, "secret21")}

\* kind: the latest call; last: its arguments; prev: the latest request that
\* was accepted (the latest pair checked, for direct check_nonce calls).
PolIdle ==
    [arg |-> "None", nonce_cache |-> "PermissiveNonceCache", kind |-> "none",
     last |-> NoRequest, decoded |-> FALSE, fresh |-> FALSE, accepted |-> FALSE,
     raised |-> FALSE, warned |-> FALSE, replay |-> FALSE,
     hasPrev |-> FALSE, prev |-> NoRequest]

\* A signed request is authenticated: its token id is decoded with the
\* node's secrets and its timestamp and nonce go to the policy's nonce cache.
\* A supplied cache is an object of the deployment: it may answer either way.
AuthenticateOp(req, tok, ts, nonce, answer) ==
    /\ LET dec == decode_hawk_id(secrets, req, tok)
           chk == IF pol.nonce_cache = "PermissiveNonceCache"
                  THEN PermissiveCheckNonce(ts, nonce, now)
                  ELSE [res |-> answer, raised |-> FALSE, warned |-> FALSE]
           r == [req |-> req, tok |-> tok, ts |-> ts, nonce |-> nonce]
       IN  /\ pol.nonce_cache = "PermissiveNonceCache" => answer
           /\ pol' = [pol EXCEPT !.kind = "authenticate", !.last = r,
                         !.decoded = dec.ok,
                         !.fresh = dec.ok /\ chk.res,
                         !.accepted = dec.ok /\ chk.res,
                         !.raised = FALSE,
                         !.warned = dec.ok /\ chk.warned,
                         !.replay = pol.hasPrev /\ r = pol.prev,
                         !.hasPrev = @ \/ (dec.ok /\ chk.res),
                         !.prev = IF dec.ok /\ chk.res THEN r ELSE @]
           /\ secrets' = SecretsGet(secrets, hawk_get_node_name(req)).store
    /\ UNCHANGED <<now, variant, nadds, op, nonceVars, moreVars, sop, der>>

\* PermissiveNonceCache.check_nonce called directly.
PermissiveCheckOp(ts, nonce) ==
    /\ pol.nonce_cache = "PermissiveNonceCache"
    /\ LET chk == PermissiveCheckNonce(ts, nonce, now)
           r == [NoRequest EXCEPT !.ts = ts, !.nonce = nonce]
       IN  pol' = [pol EXCEPT !.kind = "check_nonce", !.last = r,
                     !.decoded = FALSE, !.fresh = chk.res, !.accepted = FALSE,
                     !.raised = chk.raised, !.warned = chk.warned,
                     !.replay = pol.hasPrev /\ r = pol.prev,
                     !.hasPrev = TRUE, !.prev = r]
    /\ UNCHANGED <<now, authVars, nonceVars, moreVars, sop, der>>

PolicyInit ==
    \E arg \in NonceCacheArgs :
        pol = [PolIdle EXCEPT !.arg = arg, !.nonce_cache = NonceCacheFor(arg)]

\* ====================================================== the Secrets store
\* Text of a secrets file: each row is a node and its fields as the csv
\* reader yields them; a field is a sequence of characters, a secret being
\* one opaque character sequence.
DigitChars == <<"0", "1", "2", "3", "4", "5", "6", "7", "8", "9">>
CharOf(d) == DigitChars[d + 1]
DigitOf(c) == CHOOSE d \in 0 .. 9 : DigitChars[d + 1] = c
TextOf(timestamp) == [i \in 1 .. Len(timestamp) |-> CharOf(timestamp[i])]
DigitsOf(text) == [i \in 1 .. Len(text) |-> DigitOf(text[i])]

\* '%s:%s' % (timestamp, secret)
FormatField_SecretOnly(timestamp, secret) == <<secret>>
FormatField(timestamp, secret) == TextOf(timestamp) \o <<":">> \o <<secret>>

\* field.split(':')
RECURSIVE SplitColon(_)
SplitColon(f) ==
    IF \A i \in 1 .. Len(f) : f[i] # ":" THEN <<f>>
    ELSE LET i == CHOOSE j \in 1 .. Len(f) :
                     f[j] = ":" /\ \A k \in 1 .. j - 1 : f[k] # ":"
         IN  <<SubSeq(f, 1, i - 1)>> \o SplitColon(SubSeq(f, i + 1, Len(f)))

FieldValid(f) == Len(SplitColon(f)) = 2
\* tuple(secret.split(':')) as an entry of the store
FieldEntry(f) ==
    LET parts == SplitColon(f)
    IN  <<DigitsOf(parts[1]), IF parts[2] = <<>> THEN "" ELSE parts[2][1]>>

\* list.sort() on the (timestamp, secret) tuples: by the timestamp strings.
RECURSIVE SortInsert(_, _)
SortInsert(sorted, e) ==
    IF sorted = <<>> THEN <<e>>
    ELSE IF StrLess(e[1], Head(sorted)[1]) THEN <<e>> \o sorted
    ELSE <<Head(sorted)>> \o SortInsert(Tail(sorted), e)
RECURSIVE SortEntries(_)
SortEntries(entries) ==
    IF entries = <<>> THEN <<>>
    ELSE SortInsert(SortEntries(SubSeq(entries, 1, Len(entries) - 1)),
                    entries[Len(entries)])

Row(node, fields) == [node |-> node, fields |-> fields]
\* len(row) counts the node column too.
RowLen(row) == 1 + Len(row.fields)

Assign(store, node, entries) ==
    [n \in DOMAIN store \cup {node} |-> IF n = node THEN entries ELSE store[n]]

\* What load() met: whether a row named a node the store already had, that
\* node, the number of secret fields of the row, and the entries the store
\* held for the node at that moment (the latest such row is remembered).
NoDup == [dup |-> FALSE, node |-> Node1, fields |-> 0, entries |-> <<>>]
DupAt(store, row) ==
    [dup |-> TRUE, node |-> row.node, fields |-> Len(row.fields),
     entries |-> store[row.node]]

\* The outcome of load(): the store as it is left and the exception raised.
Loaded(store, exc, g) == [store |-> store, exc |-> exc, g |-> g]

RowEntries(row) ==
    SortEntries([i \in 1 .. Len(row.fields) |-> FieldEntry(row.fields[i])])

\* Secrets.load over the rows of the files, in order.
RECURSIVE LoadRows(_, _, _)
LoadRows_NoDuplicateTest(store, rows, g) ==
    IF rows = <<>> THEN Loaded(store, NoExc, g)
    ELSE LET row == Head(rows)
             g2 == IF row.node \in DOMAIN store THEN DupAt(store, row) ELSE g
         IN  IF RowLen(row) < 2 THEN LoadRows(store, Tail(rows), g2)
             ELSE IF \E i \in 1 .. Len(row.fields) : ~FieldValid(row.fields[i])
             THEN Loaded(store, Exc("ValueError", "Invalid secret"), g2)
             ELSE LoadRows(Assign(store, row.node, RowEntries(row)), Tail(rows), g2)
LoadRows(store, rows, g) ==
    IF rows = <<>> THEN Loaded(store, NoExc, g)
    ELSE LET row == Head(rows)
             g2 == IF row.node \in DOMAIN store THEN DupAt(store, row) ELSE g
         IN  IF RowLen(row) < 2 THEN LoadRows(store, Tail(rows), g2)
             ELSE IF row.node \in DOMAIN store
             THEN Loaded(store, Exc("ValueError", "Duplicate node"), g2)
             ELSE IF \E i \in 1 .. Len(row.fields) : ~FieldValid(row.fields[i])
             THEN Loaded(store, Exc("ValueError", "Invalid secret"), g2)
             ELSE LoadRows(Assign(store, row.node, RowEntries(row)), Tail(rows), g2)

RECURSIVE Concat(_)
Concat(files) == IF files = <<>> THEN <<>> ELSE Head(files) \o Concat(Tail(files))
SecretsLoad(store, files) == LoadRows(store, Concat(files), NoDup)

\* Secrets.save: one row per node of the dict, in the dict's order.
SaveRow(store, node) ==
    Row(node, [i \in 1 .. Len(store[node]) |->
                  FormatField(store[node][i][1], store[node][i][2])])
SecretsSave(store, order) == [i \in 1 .. Len(order) |-> SaveRow(store, order[i])]
Orders(S) ==
    {o \in [1 .. Cardinality(S) -> S] : \A i, j \in 1 .. Cardinality(S) : i # j => o[i] # o[j]}
EmptyStore == [n \in {} |-> <<>>]

\* The secrets files at hand.
FileA == <<Row(Node1, <<(<<"9", ":", "secret11">>), (<<"1", "0", ":", "secret12">>)>>)>>
FileB == <<Row(Node2, <<(<<"0", "0", "0", "9", ":", "secret21">>)>>)>>
FileC == <<Row(Node2, <<>>), Row(Node1, <<(<<"9", ":", "secret99">>)>>)>>
FileD == <<Row(Node2, <<(<<"secret21">>)>>)>>
Files == {FileA, FileB, FileC, FileD}
FileLists == {<<f>> : f \in Files} \cup {<<f, g>> : f, g \in Files}

\* time.time() as the store reads it: the behaviour starts Epoch seconds in.
Epoch == 8
StoreSecond(t) == Epoch + PyInt(t)
RECURSIVE IntOfStr(_)
IntOfStr(digits) ==
    IF digits = <<>> THEN 0
    ELSE 10 * IntOfStr(SubSeq(digits, 1, Len(digits) - 1)) + digits[Len(digits)]

\* kind: the latest call; before: the store as the call found it; onlyAdds:
\* nothing but add() has been called on the store so far.
NoStoreOp ==
    [kind |-> "none", n |-> 0, node |-> Node1, exc |-> NoExc, before |-> EmptyStore,
     list |-> <<>>, keys |-> {}, g |-> NoDup,
     second |-> 0, reloaded |-> EmptyStore, reloadExc |-> NoExc, onlyAdds |-> TRUE]
StoreCall(kind) ==
    [NoStoreOp EXCEPT !.kind = kind, !.n = sop.n + 1, !.before = secrets,
                      !.onlyAdds = sop.onlyAdds]

StoreLoadOp(files) ==
    /\ sop.n < MaxStoreOps
    /\ LET r == SecretsLoad(secrets, files)
       IN  /\ secrets' = r.store
           /\ sop' = [StoreCall("load") EXCEPT !.exc = r.exc, !.g = r.g,
                         !.onlyAdds = FALSE]
    /\ UNCHANGED <<now, variant, nadds, op, nonceVars, moreVars, pol, der>>

StoreAddOp(node, secret) ==
    /\ sop.n < MaxStoreOps
    /\ LET timestamp == StrOfInt(StoreSecond(now))
       IN  /\ secrets' = SecretsAdd(secrets, node, timestamp, secret)
           /\ sop' = [StoreCall("add") EXCEPT !.node = node,
                         !.second = StoreSecond(now),
                         !.exc = IF AddRejected(secrets, node, timestamp)
                                 THEN Exc("AssertionError",
                                          "You can only add one secret per second")
                                 ELSE NoExc]
    /\ UNCHANGED <<now, variant, nadds, op, nonceVars, moreVars, pol, der>>

StoreGetOp(node) ==
    /\ sop.n < MaxStoreOps
    /\ LET got == SecretsGet(secrets, node)
       IN  /\ secrets' = got.store
           /\ sop' = [StoreCall("get") EXCEPT !.node = node, !.list = got.list,
                         !.onlyAdds = FALSE]
    /\ UNCHANGED <<now, variant, nadds, op, nonceVars, moreVars, pol, der>>

StoreKeysOp ==
    /\ sop.n < MaxStoreOps
    /\ sop' = [StoreCall("keys") EXCEPT !.keys = SecretsKeys(secrets),
                  !.onlyAdds = FALSE]
    /\ UNCHANGED <<now, authVars, nonceVars, moreVars, pol, der>>

\* save(filename) followed by Secrets(filename) on the file written.
StoreSaveLoadOp(order) ==
    /\ sop.n < MaxStoreOps
    /\ LET r == SecretsLoad(EmptyStore, <<SecretsSave(secrets, order)>>)
       IN  sop' = [StoreCall("saveload") EXCEPT !.reloaded = r.store,
                     !.reloadExc = r.exc]
    /\ UNCHANGED <<now, authVars, nonceVars, moreVars, pol, der>>
\* ========================================================= DerivedSecrets
\* Master secrets are strings of hex characters of any length.
HexChars == {"a", "b"}
RECURSIVE StringsOfLen(_)
StringsOfLen(n) ==
    IF n = 0 THEN {<<>>}
    ELSE {Append(w, c) : w \in StringsOfLen(n - 1), c \in HexChars}
MasterSecrets == UNION {StringsOfLen(n) : n \in 0 .. MaxMasterLen}
MasterLists == {<<m>> : m \in MasterSecrets} \cup (MasterSecrets \X {<<"a", "b">>, <<"b">>})

\* HKDF_INFO_NODE_SECRET + node
HkdfInfo_NoNode(node) == <<"services.mozilla.com/mozsvc/v1/node_secret/">>
HkdfInfo(node) == <<"services.mozilla.com/mozsvc/v1/node_secret/", node>>

\* size = len(master_secret) / 2, an integer division
DerivedSize_FullLength(master_secret) == Len(master_secret)
DerivedSize(master_secret) == Len(master_secret) \div 2

\* tokenlib.utils.HKDF: size bytes of key material, each a function of the
\* input key, the info string and its position in the output.
HKDF(master_secret, size, info) ==
    [i \in 1 .. size |-> [ikm |-> master_secret, info |-> info, at |-> i]]
\* binascii.b2a_hex: two hex characters for each byte.
B2aHex(bytes) ==
    [i \in 1 .. 2 * Len(bytes) |->
        [byte |-> bytes[(i + 1) \div 2], nibble |-> IF i % 2 = 1 THEN "hi" ELSE "lo"]]

\* DerivedSecrets.get: one derived secret for each master secret, in order.
DerivedSecretsGet(master_secrets, node) ==
    [i \in 1 .. Len(master_secrets) |->
        B2aHex(HKDF(master_secrets[i], DerivedSize(master_secrets[i]), HkdfInfo(node)))]

NoDerived ==
    [kind |-> "none", masters |-> <<>>, node |-> Node1, out |-> <<>>,
     hasPrev |-> FALSE, prevNode |-> Node1, prevOut |-> <<>>]

\* get(node) on a DerivedSecrets object, remembering the call before it.
DerivedGetOp(node) ==
    /\ der' = [der EXCEPT !.kind = "get", !.node = node,
                  !.out = DerivedSecretsGet(der.masters, node),
                  !.hasPrev = der.kind = "get",
                  !.prevNode = der.node, !.prevOut = der.out]
    /\ UNCHANGED <<now, authVars, nonceVars, moreVars, pol, sop>>

\* ========================================================= thread_context
\* metrics.py keeps one dictionary for each thread in _LOCAL_STORAGE.
Threads == {1, 2}
LocalKeys == {"a", "b"}           \* what a block may store in its dictionary

\* has: has_tlocal(); dict: the thread's dictionary; pc: inside or outside a
\* 'with thread_context(callback)' block; left: how the latest block was
\* left; calls, arg: the callback invocations of the latest block and the
\* dictionary passed; mutated: the dictionary as the block body left it.
NoBlock ==
    [has |-> FALSE, dict |-> {}, pc |-> "out", left |-> "none", n |-> 0,
     calls |-> 0, arg |-> {}, mutated |-> {}]

\* get_tlocal(): the thread's dictionary, created empty when absent.
GetTlocal(th) == IF th.has THEN th.dict ELSE {}
\* clear_tlocal(): the thread's dictionary is deleted.
ClearTlocal(th) == [th EXCEPT !.has = FALSE, !.dict = {}]

\* Lines 318-324: set_tlocal({}) unless has_tlocal(); yield get_tlocal().
ThreadEnter(t) ==
    /\ tl[t].pc = "out" /\ tl[t].n < MaxBlocks
    /\ tl' = [tl EXCEPT ![t] =
                [@ EXCEPT !.pc = "in", !.has = TRUE, !.dict = GetTlocal(tl[t]),
                          !.left = "none", !.n = @ + 1,
                          !.calls = 0, !.arg = {}, !.mutated = {}]]
    /\ UNCHANGED <<now, nonceVars, authVars, pol, sop, der, pool, cli, cfg>>

\* The block body stores a key in the dictionary it was given.
BlockStore(t, k) ==
    /\ tl[t].pc = "in" /\ k \notin tl[t].dict
    /\ tl' = [tl EXCEPT ![t].dict = @ \cup {k}]
    /\ UNCHANGED <<now, nonceVars, authVars, pol, sop, der, pool, cli, cfg>>

\* Lines 326-329: the body ends normally; callback(get_tlocal()) runs inside
\* try/finally clear_tlocal().  The callback may raise.
BlockEnd(t, callbackRaises) ==
    /\ tl[t].pc = "in"
    /\ tl' = [tl EXCEPT ![t] =
                [ClearTlocal(@) EXCEPT
                    !.pc = "out",
                    !.left = IF callbackRaises THEN "callback raised" ELSE "normal",
                    !.calls = tl[t].calls + 1, !.arg = GetTlocal(tl[t]),
                    !.mutated = tl[t].dict]]
    /\ UNCHANGED <<now, nonceVars, authVars, pol, sop, der, pool, cli, cfg>>

\* The body raises: contextlib throws the exception into the generator at
\* the yield of line 324, which is outside the try of line 326, so neither
\* the callback nor clear_tlocal() runs.
BlockRaise(t) ==
    /\ tl[t].pc = "in"
    /\ tl' = [tl EXCEPT ![t] =
                [@ EXCEPT !.pc = "out", !.left = "body raised", !.mutated = tl[t].dict]]
    /\ UNCHANGED <<now, nonceVars, authVars, pol, sop, der, pool, cli, cfg>>

\* =========================================================== MCClientPool
\* The queue holds (connection_timestamp, client) tuples, oldest first;
\* EMPTY_SLOT = (sys.maxint, None) sorts after every live connection.
EMPTY_SLOT == [empty |-> TRUE, ts |-> 0]
Conn(ts) == [empty |-> FALSE, ts |-> ts]
SortsBefore(a, b) == ~a.empty /\ (b.empty \/ a.ts <= b.ts)
\* Queue.PriorityQueue.put on a queue kept in order.
QueuePut(q, e) ==
    LET i == Cardinality({j \in 1 .. Len(q) : SortsBefore(q[j], e)})
    IN  SubSeq(q, 1, i) \o <<e>> \o SubSeq(q, i + 1, Len(q))

\* __init__: with a maxsize the queue is primed with empty slots.  A worker
\* is idle, inside _checkout_client, or inside the body of its 'with
\* pool.reserve()' block holding the client stamped ts.
IdleWorker == [pc |-> "idle", ts |-> 0, res |-> "none"]
NewPool ==
    [clients |-> [i \in 1 .. maxsize |-> EMPTY_SLOT],
     w |-> [p \in Procs |-> IdleWorker], errors |-> 0]

\* A connection stamped ts is stale unless ts + self.timeout > now.
StaleConn(ts, t) == ~(ts + timeout > PyInt(t))
CheckedOut == {p \in Procs : pool.w[p].pc = "body"}

\* A worker calls reserve().
PoolReserve(p) ==
    /\ pool.w[p].pc = "idle"
    /\ pool' = [pool EXCEPT !.w[p] = [IdleWorker EXCEPT !.pc = "checkout"]]
    /\ UNCHANGED <<now, nonceVars, authVars, pol, sop, der, tl, cli, cfg>>

\* One turn of the loop of _checkout_client: clients.get(blocking) waits
\* for an entry; an empty slot makes it create a client (which may fail), a
\* fresh connection is returned, a stale one is closed and replaced by an
\* empty slot before the loop goes round again.
PoolCheckout(p, created) ==
    /\ pool.w[p].pc = "checkout"
    /\ pool.clients # <<>>
    /\ LET e == Head(pool.clients)
           rest == Tail(pool.clients)
       IN  IF e.empty
           THEN /\ created \/ pool.errors < MaxPoolErrors
                /\ pool' = IF created
                           THEN [pool EXCEPT !.clients = rest, !.w[p].pc = "body",
                                             !.w[p].ts = PyInt(now)]
                           ELSE [pool EXCEPT !.clients = rest, !.w[p].pc = "idle",
                                             !.w[p].res = "raised", !.errors = @ + 1]
           ELSE /\ created
                /\ pool' = IF ~StaleConn(e.ts, now)
                           THEN [pool EXCEPT !.clients = rest, !.w[p].pc = "body",
                                             !.w[p].ts = e.ts]
                           ELSE [pool EXCEPT !.clients = QueuePut(rest, EMPTY_SLOT)]
    /\ UNCHANGED <<now, nonceVars, authVars, pol, sop, der, tl, cli, cfg>>

\* _checkin_client(ts, client), given what client.is_connected() answers.
Checkin(q, ts, connected, t) ==
    IF connected
    THEN IF ~StaleConn(ts, t) THEN QueuePut(q, Conn(ts)) ELSE QueuePut(q, EMPTY_SLOT)
    ELSE q

\* The body of the 'with' block ends and reserve() checks the client in.  A
\* body that met an EnvironmentError or RuntimeError has disconnected the
\* client (MemcachedClient._connect) before the error leaves the block.
PoolRelease(p, failed) ==
    /\ pool.w[p].pc = "body"
    /\ failed => pool.errors < MaxPoolErrors
    /\ pool' = [pool EXCEPT
                  !.clients = Checkin(@, pool.w[p].ts, ~failed, now),
                  !.w[p].pc = "idle",
                  !.w[p].res = IF failed THEN "raised" ELSE "returned",
                  !.errors = IF failed THEN @ + 1 ELSE @]
    /\ UNCHANGED <<now, nonceVars, authVars, pol, sop, der, tl, cli, cfg>>

\* ================================================================ manage
\* Command-line arguments are strings, kept as sequences of characters.
NewWord == <<"n", "e", "w">>
DeriveWord == <<"d", "e", "r", "i", "v", "e">>
ArgTexts == {NewWord, DeriveWord, <<"2">>, <<"-", "1">>, <<"a", "b">>, <<"2", "a">>}
ArgLists == UNION {[1 .. n -> ArgTexts] : n \in 0 .. MaxArgs}

\* int(text): an optional sign and at least one digit, else ValueError.
PyIntOfText(text) ==
    LET signed == text # <<>> /\ Head(text) \in {"-", "+"}
        body == IF signed THEN Tail(text) ELSE text
        ok == body # <<>> /\ \A i \in 1 .. Len(body) :
                                 \E d \in 1 .. 10 : DigitChars[d] = body[i]
    IN  IF ~ok THEN [ok |-> FALSE, v |-> 0]
        ELSE [ok |-> TRUE,
              v |-> IF signed /\ Head(text) = "-" THEN 0 - IntOfStr(DigitsOf(body))
                    ELSE IntOfStr(DigitsOf(body))]

\* What manage does: the code it returns or the exception that leaves it,
\* and the number of characters of the secret it prints.
Usage == [code |-> 1, raised |-> "none", printed |-> 0]
Success(n) == [code |-> 0, raised |-> "none", printed |-> n]
Escapes(type) == [code |-> 0 - 1, raised |-> type, printed |-> 0]

\* os.urandom(size).encode('hex').  Given a negative size os.urandom raises
\* ValueError where it is the C function and returns '' where it is the
\* loop over /dev/urandom of older interpreters.
UrandomHex(size, urandomRaises) ==
    IF size >= 0 THEN Success(2 * size)
    ELSE IF urandomRaises THEN Escapes("ValueError") ELSE Success(0)

\* manage(args); args[0] of the code is args[1] here.
Manage(args, urandomRaises) ==
    IF Len(args) < 2 THEN Usage
    ELSE IF args[2] = NewWord
    THEN IF Len(args) > 3 THEN Usage
         ELSE IF Len(args) = 3 /\ ~PyIntOfText(args[3]).ok THEN Usage
         ELSE UrandomHex(IF Len(args) = 3 THEN PyIntOfText(args[3]).v ELSE 32,
                         urandomRaises)
    ELSE IF args[2] = DeriveWord
    THEN IF Len(args) # 4 THEN Usage
         ELSE Success(Len(DerivedSecretsGet(<<args[3]>>, args[4])[1]))
    ELSE Usage

NoRun == [ran |-> FALSE, args |-> <<>>, code |-> 0, raised |-> "none", printed |-> 0]

\* One run of the command (a process runs manage(sys.argv) once).
ManageOp(args, urandomRaises) ==
    /\ ~cli.ran
    /\ LET r == Manage(args, urandomRaises)
       IN  cli' = [ran |-> TRUE, args |-> args, code |-> r.code, raised |-> r.raised,
                   printed |-> r.printed]
    /\ UNCHANGED <<now, nonceVars, authVars, pol, sop, der, tl, pool, cfg>>

\* ========================================================= configuration
\* A setting or keyword argument: absent (not in the settings, None as an
\* argument) or supplied with a value; a secret value is the list of the
\* secrets it spells, none for the empty string.
Absent == [set |-> FALSE, v |-> <<>>]
Supplied(v) == [set |-> TRUE, v |-> v]
SecretSettings == {Absent, Supplied(<<"secret11">>), Supplied(<<>>)}
FileSettings == {Absent} \cup {Supplied(f) : f \in Files}

\* An authenticator as constructed: the secret or the secrets store it uses.
Authenticator(kind, backend, secret, store) ==
    [kind |-> kind, backend |-> backend, secret |-> secret, store |-> store]
Built(a) == [ok |-> TRUE, auth |-> a, exc |-> NoExc]
NotBuilt(e) ==
    [ok |-> FALSE, auth |-> Authenticator("none", "none", <<>>, EmptyStore), exc |-> e]

\* mozsvc.secrets.Secrets(filename): the file is loaded by the constructor.
NewSecrets(kind, file) ==
    LET r == SecretsLoad(EmptyStore, <<file>>)
    IN  IF r.exc # NoExc THEN NotBuilt(r.exc)
        ELSE Built(Authenticator(kind, "Secrets", <<>>, r.store))

\* TokenServerAuthenticationPolicy._parse_settings, then __init__ on the
\* keywords it returns.
HawkFromSettings_FileWins(secret, secrets_file) ==
    IF secrets_file.set THEN NewSecrets("hawk", secrets_file.v)
    ELSE IF secret.set
    THEN Built(Authenticator("hawk", "FixedSecrets", secret.v, EmptyStore))
    ELSE Built(Authenticator("hawk", "random", <<>>, EmptyStore))
HawkFromSettings(secret, secrets_file) ==
    IF secrets_file.set /\ secret.set
    THEN NotBuilt(Exc("ValueError", "can't use both 'secret' and 'secrets_file'"))
    ELSE IF secrets_file.set THEN NewSecrets("hawk", secrets_file.v)
    ELSE IF secret.set
    THEN Built(Authenticator("hawk", "FixedSecrets", secret.v, EmptyStore))
    ELSE Built(Authenticator("hawk", "random", <<>>, EmptyStore))

\* SagradaMACAuthPlugin.__init__(secret, secrets_file).
MacInit(secret, secrets_file) ==
    IF secret.set /\ secrets_file.set
    THEN NotBuilt(Exc("ValueError", "Can only specify one of 'secret' or 'secrets_file'"))
    ELSE IF secrets_file.set THEN NewSecrets("mac", secrets_file.v)
    ELSE IF secret.set THEN Built(Authenticator("mac", "secret", secret.v, EmptyStore))
    ELSE Built(Authenticator("mac", "random", <<>>, EmptyStore))

Construct(kind, secret, secrets_file) ==
    IF kind = "hawk" THEN HawkFromSettings(secret, secrets_file)
    ELSE MacInit(secret, secrets_file)

\* built: the authenticators there are; last: the latest attempt.
NoConfig ==
    [n |-> 0, built |-> {}, before |-> {}, kind |-> "none",
     secret |-> Absent, secrets_file |-> Absent, last |-> NotBuilt(NoExc)]

ConstructOp(kind, secret, secrets_file) ==
    /\ cfg.n < MaxConfigs
    /\ LET r == Construct(kind, secret, secrets_file)
       IN  cfg' = [n |-> cfg.n + 1,
                   built |-> IF r.ok THEN cfg.built \cup {r.auth} ELSE cfg.built,
                   before |-> cfg.built, kind |-> kind,
                   secret |-> secret, secrets_file |-> secrets_file, last |-> r]
    /\ UNCHANGED <<now, nonceVars, authVars, pol, sop, der, tl, pool, cli>>

NonceInit ==
    /\ now = 0
    /\ cache = [k \in {} |-> [data |-> JTrue, exp |-> 0]]
    /\ call = [p \in Procs |-> IdleCall]
    /\ ncalls = 0
    /\ faults = 0
    /\ started = {}
    /\ accepted = [t \in {} |-> 0]

MoreInit == tl = [t \in Threads |-> NoBlock] /\ pool = NewPool /\ cli = NoRun /\ cfg = NoConfig
ExtInit == pol = PolIdle /\ sop = NoStoreOp /\ der = NoDerived /\ MoreInit
Init == NonceInit /\ AuthInit /\ variant = "hawk" /\ ExtInit
AuthSpecInit == NonceInit /\ AuthInit /\ ExtInit

Next ==
    \/ \E p \in Procs, id \in Ids, ts \in Timestamps, n \in Nonces : Start(p, id, ts, n)
          /\ UNCHANGED <<authVars, extVars>>
    \/ \E p \in Procs : GetMulti(p)
          /\ UNCHANGED <<authVars, extVars>>
    \/ \E p \in Procs : RecordSkew(p)
          /\ UNCHANGED <<authVars, extVars>>
    \/ \E p \in Procs : CheckWindow(p)
          /\ UNCHANGED <<authVars, extVars>>
    \/ \E p \in Procs : AddNonce(p)
          /\ UNCHANGED <<authVars, extVars>>
    \/ \E p \in Procs : BackendFailure(p)
          /\ UNCHANGED <<authVars, extVars>>
    \/ \E k \in DOMAIN cache : Corrupt(k)
          /\ UNCHANGED <<authVars, extVars>>
    \/ Tick /\ UNCHANGED <<authVars, extVars>>

Spec == Init /\ [][Next]_vars

\* The same workers when check_nonce calls never overlap: a call starts only
\* when no other call is in progress.
NoCallInFlight == \A q \in Procs : ~InFlight(q)

FirstWorker(p) == \A q \in Procs : p <= q

SeqNext ==
    \/ \E p \in Procs, id \in Ids, ts \in Timestamps, n \in Nonces :
          FirstWorker(p) /\ NoCallInFlight /\ Start(p, id, ts, n)
          /\ UNCHANGED <<authVars, extVars>>
    \/ \E p \in Procs : GetMulti(p)
          /\ UNCHANGED <<authVars, extVars>>
    \/ \E p \in Procs : RecordSkew(p)
          /\ UNCHANGED <<authVars, extVars>>
    \/ \E p \in Procs : CheckWindow(p)
          /\ UNCHANGED <<authVars, extVars>>
    \/ \E p \in Procs : AddNonce(p)
          /\ UNCHANGED <<authVars, extVars>>
    \/ \E p \in Procs : BackendFailure(p)
          /\ UNCHANGED <<authVars, extVars>>
    \/ \E k \in DOMAIN cache : Corrupt(k)
          /\ UNCHANGED <<authVars, extVars>>
    \/ Tick /\ UNCHANGED <<authVars, extVars>>

SeqSpec == Init /\ [][SeqNext]_vars

\* Overlapping calls against a memcached that stays healthy; each worker
\* serves one client, which signs its requests with its own nonce.
NonceOf(p) == IF p = 1 THEN "n1" ELSE "n2"
RaceNext ==
    \/ \E p \in Procs, id \in Ids, ts \in Timestamps : Start(p, id, ts, NonceOf(p))
          /\ UNCHANGED <<authVars, extVars>>
    \/ \E p \in Procs : GetMulti(p)
          /\ UNCHANGED <<authVars, extVars>>
    \/ \E p \in Procs : RecordSkew(p)
          /\ UNCHANGED <<authVars, extVars>>
    \/ \E p \in Procs : CheckWindow(p)
          /\ UNCHANGED <<authVars, extVars>>
    \/ \E p \in Procs : AddNonce(p)
          /\ UNCHANGED <<authVars, extVars>>
    \/ Tick /\ UNCHANGED <<authVars, extVars>>

RaceSpec == Init /\ [][RaceNext]_vars

\* The authenticator over the secrets store: tokens are decoded and issued
\* while an operator rotates secrets and the clock advances.
AuthNext ==
    \/ \E req \in Requests, tok \in ForgedTokens : DecodeOp(req, tok)
          /\ UNCHANGED extVars
    \/ \E req \in Requests, uid \in Uids : EncodeOp(req, uid)
          /\ UNCHANGED extVars
    \/ \E req \in Requests : RoundTripOp(req)
          /\ UNCHANGED extVars
    \/ \E node \in {Node1, Node2}, s \in SecretPool : AddOp(node, s)
          /\ UNCHANGED extVars
    \/ TickSecond /\ UNCHANGED extVars

AuthSpec == AuthSpecInit /\ [][AuthNext]_vars

\* The authentication policy built over the file-loaded store.
PolicySpecInit ==
    /\ NonceInit /\ AuthInit /\ variant = "hawk"
    /\ PolicyInit /\ sop = NoStoreOp /\ der = NoDerived /\ MoreInit

PolicyNext ==
    \/ \E req \in {Node1, Node2}, tok \in PolicyTokens, ts \in HawkTimestamps,
          nonce \in Nonces, answer \in BOOLEAN : AuthenticateOp(req, tok, ts, nonce, answer)
    \/ \E ts \in HawkTimestamps, nonce \in Nonces : PermissiveCheckOp(ts, nonce)
    \/ TickSecond /\ UNCHANGED extVars

PolicySpec == PolicySpecInit /\ [][PolicyNext]_vars

\* A Secrets store constructed empty, then loaded, read, rotated and saved.
StoreSpecInit ==
    /\ NonceInit
    /\ variant = "hawk" /\ secrets = EmptyStore /\ nadds = 0 /\ op = NoOp
    /\ ExtInit

StoreNext ==
    \/ \E files \in FileLists : StoreLoadOp(files)
    \/ \E node \in {Node1, Node2}, s \in SecretPool : StoreAddOp(node, s)
    \/ \E node \in {Node1, Node2} : StoreGetOp(node)
    \/ StoreKeysOp
    \/ \E order \in Orders(DOMAIN secrets) : StoreSaveLoadOp(order)
    \/ TickSecond /\ UNCHANGED extVars

StoreSpec == StoreSpecInit /\ [][StoreNext]_vars

\* A DerivedSecrets object constructed over any list of master secrets.
DerivedSpecInit ==
    /\ NonceInit /\ AuthInit /\ variant = "hawk"
    /\ pol = PolIdle /\ sop = NoStoreOp
    /\ \E masters \in MasterLists : der = [NoDerived EXCEPT !.masters = masters]
    /\ MoreInit

DerivedNext ==
    \/ \E node \in {Node1, Node2} : DerivedGetOp(node)
    \/ TickSecond /\ UNCHANGED extVars

DerivedSpec == DerivedSpecInit /\ [][DerivedNext]_vars

\* Threads entering and leaving thread_context blocks.
ContextNext ==
    \/ \E t \in Threads : ThreadEnter(t)
    \/ \E t \in Threads, k \in LocalKeys : BlockStore(t, k)
    \/ \E t \in Threads, callbackRaises \in BOOLEAN : BlockEnd(t, callbackRaises)
    \/ \E t \in Threads : BlockRaise(t)

ContextSpec == Init /\ [][ContextNext]_vars

\* Authenticators constructed from any combination of the two settings.
ConfigNext ==
    \E kind \in Variants, secret \in SecretSettings, secrets_file \in FileSettings :
        ConstructOp(kind, secret, secrets_file)

ConfigSpec == Init /\ [][ConfigNext]_vars

\* The secrets command line, run on any argument list.
CliNext == \E args \in ArgLists, urandomRaises \in BOOLEAN : ManageOp(args, urandomRaises)

CliSpec == Init /\ [][CliNext]_vars

\* Workers sharing one MCClientPool while the clock advances.
PoolNext ==
    \/ \E p \in Procs : PoolReserve(p)
    \/ \E p \in Procs, created \in BOOLEAN : PoolCheckout(p, created)
    \/ \E p \in Procs, failed \in BOOLEAN : PoolRelease(p, failed)
    \/ TickSecond /\ UNCHANGED extVars

PoolSpec == Init /\ [][PoolNext]_vars

\* The same with the scheduling the threads get: a worker waiting on the
\* queue is served if entries keep arriving, and every block comes to an end.
PoolFairSpec ==
    /\ PoolSpec
    /\ \A p \in Procs : SF_vars(\E created \in BOOLEAN : PoolCheckout(p, created))
    /\ \A p \in Procs : WF_vars(\E failed \in BOOLEAN : PoolRelease(p, failed))

\* ====================================================== nonce cache claims
NoFault(c) == ~c.corrupt /\ c.failedOp = "none"
\* The request timestamp's distance from the clock, before the skew is applied.
RawDist(c) == c.dist - Ticks(c.skew)

\* C1 (as stated): in a sequence of calls with no cache fault, a triple whose timestamp is inside
\* the window [now - nonce_ttl, now + nonce_ttl] is accepted on its first
\* call, and rejected on every later identical call within the nonce TTL.
C1_AsStated ==
    \A p \in Procs :
        LET c == call[p]
        IN  Done(p) /\ faults = 0 =>
              /\ (c.first /\ ~c.ticked /\ c.checked /\ Abs(RawDist(c)) < Ticks(nonce_ttl))
                    => c.res = "True"
              /\ c.inPriorTtl => c.res = "False"

\* C1 (amended): in a sequence of non-overlapping calls without cache
\* faults, the first call on a triple is never taken for a replay: it returns
\* true exactly when its skew-adjusted timestamp is strictly within nonce_ttl
\* of the clock (so also for a second nonce on the same id and timestamp);
\* every later identical call made before the nonce record expires returns
\* false.
C1_SequentialAtMostOnce ==
    \A p \in Procs :
        LET c == call[p]
        IN  Done(p) /\ NoFault(c) =>
              /\ c.first => /\ ~c.seenNonce /\ c.checked
                            /\ c.res = "True" <=> Abs(c.dist) < Ticks(nonce_ttl)
              /\ c.inPriorTtl => c.res = "False" /\ c.seenNonce

\* A replay is presented within the TTL of its acceptance and is rejected.
C1_Witness ==
    \E p \in Procs :
        /\ Done(p) /\ NoFault(call[p]) /\ ~call[p].first
        /\ call[p].inPriorTtl /\ call[p].seenNonce /\ call[p].res = "False"

Finished(p) == call[p].pc \in {"done", "returned"}
Overlapped(p, q) == q \in call[p].conc \/ p \in call[q].conc
\* C2: of two overlapping calls on the same triple at most one returns true,
\* and a call returns true only if its own add of the nonce key stored it.
C2_ConcurrentAtMostOnce ==
    /\ \A p, q \in Procs :
          (p # q /\ Finished(p) /\ Finished(q) /\ Overlapped(p, q)
                 /\ Triple(call[p]) = Triple(call[q]))
            => ~(call[p].res = "True" /\ call[q].res = "True")
    /\ \A p \in Procs : (Done(p) /\ call[p].res = "True") => call[p].addStored

\* C3 (as stated): with no cache fault and whatever skew record the cache
\* holds for the identifier (or none), a timestamp
\* more than nonce_ttl seconds from the clock is rejected, and the timestamp
\* equal to the clock with an unseen nonce is accepted.
C3_AsStated ==
    \A p \in Procs :
        LET c == call[p]
        IN  (Done(p) /\ faults = 0 /\ ~c.ticked /\ c.checked) =>
              /\ Abs(RawDist(c)) >= Ticks(nonce_ttl + 1) => c.res = "False"
              /\ RawDist(c) = 0 => c.res = "True"

\* C3 (amended): the window is applied to the skew-adjusted timestamp.  With
\* a skew record s cached for the identifier, an unseen nonce is accepted
\* exactly when |timestamp + s - now| < nonce_ttl; with no skew record the
\* call records int(now - timestamp) itself and accepts an unseen nonce
\* whatever the timestamp (the clock not moving during the call).
C3_WindowOnAdjustedTimestamp ==
    \A p \in Procs :
        LET c == call[p]
        IN  (Done(p) /\ NoFault(c) /\ ~c.seenNonce) =>
              /\ c.checked
              /\ c.hasSkew => (c.res = "True" <=> Abs(c.dist) < Ticks(nonce_ttl))
              /\ (~c.hasSkew /\ ~c.ticked) => c.res = "True"

\* A timestamp inside the raw window is rejected because of the cached skew.
C3_Witness ==
    \E p \in Procs :
        LET c == call[p]
        IN  /\ Done(p) /\ NoFault(c) /\ c.hasSkew /\ c.checked
            /\ Abs(c.dist) >= Ticks(nonce_ttl) /\ c.res = "False"
            /\ Abs(RawDist(c)) < Ticks(nonce_ttl)

\* C4 (as stated): a cache operation that fails, or corrupted data, makes
\* check_nonce return false; it never raises.
C4_AsStated ==
    \A p \in Procs :
        (Done(p) /\ ~NoFault(call[p])) => call[p].res = "False"

\* C4 (what the code does guarantee): corrupted data read by get_multi makes
\* check_nonce return false; a cache operation that fails with a connection
\* error or timeout makes check_nonce raise BackendError to its caller; in
\* neither case does it return true.
C4_FaultNeverAccepts ==
    \A p \in Procs :
        LET c == call[p]
        IN  Done(p) =>
              /\ c.corrupt => c.res = "False"
              /\ c.failedOp # "none" => c.res = "BackendError"
              /\ c.res = "True" => NoFault(c)

\* The skew record read by get_multi is corrupted and the call fails closed.
C4_Witness ==
    \E p \in Procs :
        /\ Done(p) /\ call[p].corrupt /\ call[p].res = "False"
        /\ key_nonce(call[p].id, call[p].ts, call[p].nonce) \notin DOMAIN cache

\* ====================================================== authenticator claims
Decoded == op.kind \in {"decode", "roundtrip"}
OpNode == NodeName(variant, op.req)
\* The secrets the store holds for a node name, oldest first.
Held(node) ==
    IF node \in DOMAIN secrets
    THEN [i \in 1 .. Len(secrets[node]) |-> secrets[node][i][2]] ELSE <<>>
SignedWithOneOf(tok, list) == \E i \in 1 .. Len(list) : list[i] = tok.secret
\* A well-formed, unexpired token carrying the claims the decoder reads.
TokenFor(tok, node) ==
    /\ tok.state = "ok" /\ tok.hasUid
    /\ variant = "hawk" => (tok.hasNode /\ tok.node = node)
InvalidId ==
    Raises(Exc("ValueError", IF variant = "hawk" THEN "invalid Hawk id" ELSE "invalid MAC id"))

C6_AsStated ==
    (Decoded /\ op.tok.hasNode /\ op.tok.node # OpNode) => ~op.out.ok

\* C6 (what the code does guarantee): decode_hawk_id rejects a token whose
\* node claim differs from the request's canonical node, whatever secret
\* signed it and however the node's secrets are ordered or repeated;
\* decode_mac_id never compares the claim.
C6_HawkNodeClaimCheck ==
    (variant = "hawk" /\ Decoded /\ op.tok.hasNode /\ op.tok.node # OpNode)
        => ~op.out.ok

\* A token signed with a secret of the request's node, claiming another node.
C6_Witness ==
    /\ variant = "hawk" /\ op.kind = "decode" /\ op.tok.state = "ok" /\ op.tok.hasUid
    /\ op.tok.hasNode /\ op.tok.node # OpNode
    /\ SignedWithOneOf(op.tok, Held(OpNode)) /\ Len(Held(OpNode)) >= 2
    /\ ~op.out.ok

\* C7: on a request whose node has no secrets in the store, decoding fails
\* with the invalid-id error whatever the token.
C7_NoSecretsFails ==
    (Decoded /\ Held(OpNode) = <<>>) => op.out = InvalidId

\* A well-signed token for a known node is presented to an unknown node.
C7_Witness ==
    /\ op.kind = "decode" /\ Held(OpNode) = <<>> /\ ~op.out.ok
    /\ op.tok.state = "ok" /\ op.tok.hasUid /\ op.tok.secret = "secret12"

C9_UniformFailure ==
    /\ (Decoded /\ ~op.out.ok) => op.out = InvalidId
    /\ \A req \in Requests, tok \in ForgedTokens :
          LET r == Decode(variant, secrets, req, tok)
          IN  ~r.ok => r = InvalidId

\* Two failures of different causes on the same request: a node mismatch
\* found on the second secret tried, and a token with no uid.
C9_Witness ==
    /\ op.kind = "decode" /\ ~op.out.ok /\ op.cause = "node mismatch"
    /\ Len(op.list) >= 2 /\ op.tok.secret = op.list[Len(op.list)]
    /\ \E tok \in ForgedTokens :
          /\ FailureCause(variant, op.list, OpNode, tok) = "missing claim"
          /\ ~Decode(variant, secrets, op.req, tok).ok

Authenticated == pol.kind = "authenticate"

\* C11 (as stated): once a signed request has been accepted, the identical
\* request (same token, timestamp and nonce) presented again is rejected.
C11_AsStated ==
    (Authenticated /\ pol.replay) => ~pol.accepted

\* C11 (amended): a policy constructed without a nonce_cache argument uses
\* PermissiveNonceCache and accepts the identical signed request again; a
\* replay is rejected only by a nonce cache supplied to the constructor.
C11_ReplayRejectedOnlyBySuppliedCache ==
    /\ (Authenticated /\ pol.replay /\ pol.arg = "None") => pol.accepted
    /\ (Authenticated /\ pol.replay /\ ~pol.accepted) =>
          (pol.arg = "supplied" /\ pol.nonce_cache = "supplied" /\ pol.decoded)

\* The identical request is accepted a second time by the default policy.
C11_Witness ==
    /\ Authenticated /\ pol.replay /\ pol.accepted
    /\ pol.arg = "None" /\ pol.last = pol.prev /\ pol.last.tok.secret = "secret11"

\* C19: PermissiveNonceCache.check_nonce returns true and does not raise,
\* for every timestamp and nonce, at every clock value, whatever was checked
\* before.
C19_PermissiveNeverRejects ==
    /\ pol.kind = "check_nonce" => (pol.fresh /\ ~pol.raised)
    /\ (Authenticated /\ pol.nonce_cache = "PermissiveNonceCache" /\ pol.decoded)
          => pol.fresh
    /\ \A ts \in HawkTimestamps, nonce \in Nonces :
          LET chk == PermissiveCheckNonce(ts, nonce, now)
          IN  chk.res /\ ~chk.raised

\* The same pair is checked again, its timestamp far outside the log window
\* of a clock that has moved on.
C19_Witness ==
    /\ pol.kind = "check_nonce" /\ pol.replay /\ pol.warned /\ pol.fresh
    /\ now > 0 /\ pol.last.ts = 7

\* ============================================================= store claims
Entries(store, node) == IF node \in DOMAIN store THEN store[node] ELSE <<>>
AddRaised == sop.exc.type = "AssertionError"

\* C12: add(node) raises when the node already has an entry whose timestamp
\* is greater than or equal to the current second; so the second of two
\* add calls for a node within one second raises.
C12_OneInsertPerSecond ==
    sop.kind = "add" =>
        LET es == Entries(sop.before, sop.node)
        IN  (\E i \in 1 .. Len(es) : IntOfStr(es[i][1]) >= sop.second) => AddRaised

\* C12 (what the code does guarantee): add raises exactly when the current
\* second, written in decimal, does not sort after the timestamp string of
\* the node's last entry; two adds in the same second are such a case.
C12_AddRaisesOnStringOrder ==
    sop.kind = "add" =>
        LET es == Entries(sop.before, sop.node)
        IN  /\ AddRaised <=>
                 (es # <<>> /\ StrLeq(StrOfInt(sop.second), es[Len(es)][1]))
            /\ (es # <<>> /\ es[Len(es)][1] = StrOfInt(sop.second)) => AddRaised

\* C13: the entries of every node are in ascending order of their integer
\* timestamps, so the last secret of get(node) has the greatest timestamp.
C13_EntriesAscendByInteger ==
    \A node \in DOMAIN secrets :
        \A i, j \in 1 .. Len(secrets[node]) :
            i < j => IntOfStr(secrets[node][i][1]) <= IntOfStr(secrets[node][j][1])

\* C13 (what the code does guarantee): the entries of every node are in
\* ascending order of their timestamps compared as strings.
C13_EntriesAscendByString ==
    \A node \in DOMAIN secrets :
        \A i, j \in 1 .. Len(secrets[node]) :
            i < j => StrLeq(secrets[node][i][1], secrets[node][j][1])

\* C14 (as stated): a load that meets a row naming a node the store already
\* has raises, and the node keeps the entries it had.
C14_AsStated ==
    (sop.kind = "load" /\ sop.g.dup) =>
        /\ sop.exc = Exc("ValueError", "Duplicate node")
        /\ Entries(secrets, sop.g.node) = sop.g.entries

\* C14 (amended): a load that meets a row with at least one secret field
\* naming a node the store already has raises ValueError; a row with no
\* secret field is skipped without an error even if its node is already
\* there; in both cases the node keeps the entries of its first occurrence.
C14_DuplicateNodeFailsClosed ==
    (sop.kind = "load" /\ sop.g.dup) =>
        /\ sop.g.fields >= 1 => sop.exc = Exc("ValueError", "Duplicate node")
        /\ Entries(secrets, sop.g.node) = sop.g.entries

\* A second file repeats, with another secret, a node loaded from the first.
C14_Witness ==
    /\ sop.kind = "load" /\ sop.g.dup /\ sop.g.fields >= 1
    /\ sop.exc = Exc("ValueError", "Duplicate node")
    /\ sop.g.node \notin DOMAIN sop.before
    /\ Len(Entries(secrets, sop.g.node)) = 2

\* C15: a store built by add() calls alone, saved and loaded into a new
\* store, gives the same keys() and the same get(node) for every node.
C15_SaveLoadRoundTrip ==
    (sop.kind = "saveload" /\ sop.onlyAdds) =>
        /\ sop.reloadExc = NoExc
        /\ SecretsKeys(sop.reloaded) = SecretsKeys(secrets)
        /\ \A node \in DOMAIN secrets :
              SecretsGet(sop.reloaded, node).list = SecretsGet(secrets, node).list

\* A node given two secrets a second apart is saved and loaded back.
C15_Witness ==
    /\ sop.kind = "saveload" /\ sop.onlyAdds /\ sop.reloadExc = NoExc
    /\ \E node \in DOMAIN secrets :
          /\ Len(secrets[node]) = 2
          /\ SecretsGet(sop.reloaded, node).list = SecretsGet(secrets, node).list

\* C16: get(node) and keys() leave the store as they found it, also when
\* the node has no secrets.
C16_ReadsDoNotMutate ==
    sop.kind \in {"get", "keys"} =>
        /\ SecretsKeys(secrets) = SecretsKeys(sop.before)
        /\ secrets = sop.before

\* =================================================== derived-secret claims
OtherNodes == {Node1, Node2} \ {der.node}

C18_AsStated ==
    der.kind = "get" =>
        \A i \in 1 .. Len(der.masters) : Len(der.out[i]) = Len(der.masters[i])

\* C18 (amended): each hex-encoded derived secret is as long as its master
\* secret when the master has an even number of characters, and one
\* character shorter when it has an odd number.
C18_DerivedSecretLength ==
    der.kind = "get" =>
        \A i \in 1 .. Len(der.masters) :
            Len(der.out[i]) = IF Len(der.masters[i]) % 2 = 0 THEN Len(der.masters[i])
                              ELSE Len(der.masters[i]) - 1

\* A master secret of three characters derives a secret of two.
C18_Witness ==
    /\ der.kind = "get"
    /\ \E i \in 1 .. Len(der.masters) : Len(der.masters[i]) = 3 /\ Len(der.out[i]) = 2
    /\ \E i \in 1 .. Len(der.masters) : Len(der.masters[i]) = 2 /\ Len(der.out[i]) = 2

\* ======================================================= skew adjustment
\* C20: a call that finds a skew record for its identifier and an unseen
\* nonce uses the recorded skew, not one recomputed from its timestamp, and
\* returns true only if timestamp + skew is within the nonce window of the
\* clock; a timestamp that is stale after adjustment is rejected.
C20_CachedSkewAdjustsTimestamp ==
    \A p \in Procs :
        LET c == call[p]
            ks == key_skew(c.id)
        IN  (Done(p) /\ NoFault(c) /\ c.hasSkew /\ ~c.seenNonce) =>
              /\ c.checked
              /\ (ks \in DOMAIN cache /\ cache[ks].data # Garbage) => c.skew = cache[ks].data.v
              /\ c.res = "True" => Abs(c.dist) < Ticks(nonce_ttl)
              /\ Abs(c.dist) >= Ticks(nonce_ttl) => c.res = "False"

\* A timestamp that a freshly computed skew would have let through is
\* rejected under the skew recorded by an earlier request.
C20_Witness ==
    \E p \in Procs :
        LET c == call[p]
            t == Ticks(c.ts) + Ticks(c.skew) - c.dist    \* the clock at the window test
        IN  /\ Done(p) /\ NoFault(c) /\ c.hasSkew /\ ~c.seenNonce /\ ~c.ticked
            /\ c.res = "False" /\ c.skew # PyInt(t - Ticks(c.ts))
            /\ Abs(Ticks(c.ts) + Ticks(PyInt(t - Ticks(c.ts))) - t) < Ticks(nonce_ttl)

\* ==================================================== skew record writes
\* Two finished calls on one identifier that both found no skew record and
\* both wrote one, q after p.
BothWroteSkew(p, q) ==
    /\ p # q /\ Done(p) /\ Done(q) /\ call[p].id = call[q].id
    /\ 0 < call[p].wrote /\ call[p].wrote < call[q].wrote
SkewRecordIs(id, v) ==
    (key_skew(id) \in DOMAIN cache /\ cache[key_skew(id)].data # Garbage)
      => cache[key_skew(id)].data.v = v

\* C21 (as stated): when two calls for the same identifier both find no
\* skew record and both write one, the record left in the cache after both
\* complete is the value written by the later writer.
C21_AsStated ==
    \A p, q \in Procs :
        BothWroteSkew(p, q) => SkewRecordIs(call[q].id, call[q].skew)

\* C21: the skew record is first-write-wins. The later writer's add stores
\* nothing while the earlier record is live, and the record left after both
\* complete is the earlier writer's value; the later value is kept only
\* when its add stored, the earlier record having expired.
C21_SkewRecordFirstWriteWins ==
    \A p, q \in Procs :
        BothWroteSkew(p, q) =>
            /\ ~call[q].skewStored => SkewRecordIs(call[p].id, call[p].skew)
            /\ call[q].skewStored => SkewRecordIs(call[q].id, call[q].skew)

\* Both calls wrote different skews; the record is the earlier one's.
C21_Witness ==
    \E p, q \in Procs :
        /\ BothWroteSkew(p, q) /\ call[p].skew # call[q].skew
        /\ call[p].skewStored /\ ~call[q].skewStored
        /\ key_skew(call[p].id) \in DOMAIN cache
        /\ cache[key_skew(call[p].id)].data = JInt(call[p].skew)

\* ======================================================= window boundary
\* A finished, fault-free call that reached the window test.
Tested(p) == Done(p) /\ NoFault(call[p]) /\ call[p].checked

\* C27 (as stated): a timestamp whose skew-adjusted distance from the clock
\* is exactly the window is inside the window, so the call (its nonce being
\* unseen) returns true; only strictly farther timestamps are rejected.
C27_AsStated ==
    \A p \in Procs :
        Tested(p) =>
            /\ Abs(call[p].dist) <= Ticks(nonce_ttl) => call[p].res = "True"
            /\ Abs(call[p].dist) > Ticks(nonce_ttl) => call[p].res = "False"

\* C27: the window boundary is exclusive. A timestamp whose skew-adjusted
\* distance from the clock is exactly the window is rejected, like every
\* farther one; an unseen nonce is accepted only strictly inside the window.
C27_WindowBoundaryExclusive ==
    \A p \in Procs :
        Tested(p) =>
            /\ Abs(call[p].dist) = Ticks(nonce_ttl) => call[p].res = "False"
            /\ Abs(call[p].dist) > Ticks(nonce_ttl) => call[p].res = "False"
            /\ Abs(call[p].dist) < Ticks(nonce_ttl) => call[p].res = "True"

\* An unseen nonce exactly one window away from the clock was rejected.
C27_Witness ==
    \E p \in Procs :
        /\ Tested(p) /\ ~call[p].seenNonce
        /\ Abs(call[p].dist) = Ticks(nonce_ttl) /\ call[p].res = "False"

\* ========================================================= nonce records
\* The nonce records of a cache: the keys built from four components.
NonceKeys(c) == {k \in DOMAIN c : Len(k) = 4}
NonceRecords(c) == [k \in NonceKeys(c) |-> c[k]]
\* Worker p's call returns r in this step.
Returning(p, r) == call[p].pc # "done" /\ call'[p].pc = "done" /\ call'[p].res = r
\* A step of worker p's call (the clock does not move in it).
CallStep(p) == InFlight(p) /\ call'[p] # call[p] /\ now' = now

C28_AddSucceedsWhenNewer ==
    sop.kind = "add" =>
        LET es == Entries(sop.before, sop.node)
            now_es == Entries(secrets, sop.node)
        IN  /\ (\A i \in 1 .. Len(es) : IntOfStr(es[i][1]) < sop.second) =>
                  /\ ~AddRaised
                  /\ Len(now_es) = Len(es) + 1
                  /\ SubSeq(now_es, 1, Len(es)) = es
                  /\ now_es[Len(now_es)][1] = StrOfInt(sop.second)
            /\ AddRaised => now_es = es

\* ==================================================== node canonicalisation
\* The canonical node of a request: its host URL, the port dropped when it
\* is the default port of the scheme.
DefaultPort(scheme) == IF scheme = "http" THEN "80" ELSE "443"
CanonicalNode(req) ==
    IF req.port = DefaultPort(req.scheme) THEN [req EXCEPT !.port = ""] ELSE req

\* C24: the secrets an authenticator uses for a request are those of the
\* request's canonical node: ':80' under http and ':443' under https
\* resolve to the node without the port, every other port is kept.
C24_NodeCanonicalisation ==
    op.kind \in {"decode", "encode", "roundtrip"} =>
        op.list = SecretsGet(secrets, CanonicalNode(op.req)).list

\* C24 (what the code does guarantee): the Hawk policy uses the secrets of
\* the canonical node; the MAC plugin does so for every request whose port
\* is not 443.
C24_HawkNodeCanonicalisation ==
    (variant = "hawk" \/ op.req.port # "443") => C24_NodeCanonicalisation

\* ========================================================= thread_context
\* C26: whenever a thread_context block is left (normally, because the body
\* raised, or because the callback raised) the thread's local storage has
\* been cleared; on normal exit the callback was invoked exactly once, with
\* the dictionary the block mutated.
C26_ThreadContextCleansUp ==
    \A t \in Threads :
        (tl[t].pc = "out" /\ tl[t].left # "none") =>
            /\ ~tl[t].has
            /\ tl[t].left = "normal" => (tl[t].calls = 1 /\ tl[t].arg = tl[t].mutated)

\* C26 (what the code does guarantee): storage is cleared and the callback
\* invoked once with the block's dictionary when the body ends normally,
\* whether or not the callback raises; a thread's blocks never touch the
\* storage of another thread.
C26_CleansUpUnlessBodyRaised ==
    \A t \in Threads :
        /\ (tl[t].pc = "out" /\ tl[t].left \in {"normal", "callback raised"}) =>
              (~tl[t].has /\ tl[t].calls = 1 /\ tl[t].arg = tl[t].mutated)
        /\ tl[t].n = 0 => tl[t] = NoBlock

\* =========================================================== pool slots
\* C29: the entries in the queue (live connections and empty slots) and the
\* clients checked out always number maxsize; every completed reserve()
\* gives its slot back.
C29_PoolSlotConservation ==
    Len(pool.clients) + Cardinality(CheckedOut) = maxsize

\* C29 (what the code does guarantee): no slot is ever gained, and none is
\* lost as long as no connection error has occurred; each error costs at
\* most one slot.
C29_SlotsLostOnlyByErrors ==
    /\ Len(pool.clients) + Cardinality(CheckedOut) <= maxsize
    /\ Len(pool.clients) + Cardinality(CheckedOut) >= maxsize - pool.errors

\* C22: a reserve() does not wait for ever: a worker inside _checkout_client
\* eventually leaves it, with a client or with an error.
C22_ReserveEventuallyReturns ==
    \A p \in Procs : (pool.w[p].pc = "checkout") ~> (pool.w[p].pc # "checkout")

\* ========================================================== CLI result codes
\* The usage errors: no command, an unknown command, 'new' with more than
\* one argument or a size that is not an integer, 'derive' without exactly
\* two arguments.
UsageError(args) ==
    \/ Len(args) < 2
    \/ args[2] \notin {NewWord, DeriveWord}
    \/ args[2] = NewWord /\ (Len(args) > 3 \/ (Len(args) = 3 /\ ~PyIntOfText(args[3]).ok))
    \/ args[2] = DeriveWord /\ Len(args) # 4

\* C25: manage(args) returns 1 on every usage error and 0 otherwise; for no
\* argument list does it raise instead of returning one of the two codes.
C25_ManageReturnsZeroOrOne ==
    cli.ran =>
        /\ cli.raised = "none"
        /\ cli.code = IF UsageError(cli.args) THEN 1 ELSE 0

\* C25 (what the code does guarantee): the codes are as stated for every
\* argument list but 'new' with a negative size, where the outcome is that
\* of os.urandom: an exception, or code 0 with an empty secret printed.
C25_CodesExceptNegativeSize ==
    cli.ran =>
        LET negative == /\ ~UsageError(cli.args) /\ cli.args[2] = NewWord
                        /\ Len(cli.args) = 3 /\ PyIntOfText(cli.args[3]).v < 0
        IN  /\ ~negative =>
                  (cli.raised = "none" /\ cli.code = IF UsageError(cli.args) THEN 1 ELSE 0)
            /\ negative =>
                  (cli.raised = "ValueError" \/ (cli.code = 0 /\ cli.printed = 0))

\* ============================================= secret and secrets_file
BothSupplied == cfg.secret.set /\ cfg.secrets_file.set
ConfigurationErrors ==
    {Exc("ValueError", "can't use both 'secret' and 'secrets_file'"),
     Exc("ValueError", "Can only specify one of 'secret' or 'secrets_file'")}

\* C23: constructing an authenticator (Hawk policy from its settings, MAC
\* plugin from its arguments) with both 'secret' and 'secrets_file' raises
\* ValueError and produces no authenticator; with one of them or neither
\* there is no such error and the authenticator is produced (from the
\* secrets file whenever that file loads).
C23_BothIsConfigurationError ==
    cfg.n > 0 =>
        /\ BothSupplied =>
              (~cfg.last.ok /\ cfg.last.exc \in ConfigurationErrors /\ cfg.built = cfg.before)
        /\ ~BothSupplied =>
              /\ cfg.last.exc \notin ConfigurationErrors
              /\ cfg.last.ok <=>
                    (cfg.secrets_file.set =>
                        SecretsLoad(EmptyStore, <<cfg.secrets_file.v>>).exc = NoExc)
              /\ cfg.last.ok => cfg.last.auth \in cfg.built
              /\ (cfg.last.ok /\ cfg.secrets_file.set) =>
                    cfg.last.auth.store = SecretsLoad(EmptyStore, <<cfg.secrets_file.v>>).store

\* Both settings were given to the Hawk policy after an authenticator had
\* been constructed: the attempt raised and the authenticators are as before.
C23_Witness ==
    /\ cfg.n > 0 /\ BothSupplied /\ cfg.kind = "hawk"
    /\ ~cfg.last.ok /\ cfg.last.exc.type = "ValueError"
    /\ cfg.built # {} /\ cfg.built = cfg.before

====
